---- MODULE Spec2Model ----
(***************************************************************************)
(* ShardedLabelLookup (hnswlib/shard_label.h): a fixed vector of 128       *)
(* shards, each an unordered_map<labeltype, tableint> guarded by its own   *)
(* std::shared_mutex.  insert / find / erase route a label to one shard    *)
(* with get_shard_index and work on that shard's map under its mutex.      *)
(*                                                                         *)
(* Every caller thread is a process.  One operation is split at the points *)
(* where other threads can interleave: the call (which computes idx, a     *)
(* thread-local value), the acquisition of the mutex, the statements       *)
(* executed under the mutex, and the return (which releases the mutex in   *)
(* the lock object's destructor).  An operation completes with that step:  *)
(* leaving the scope releases the mutex and hands the result to the caller.*)
(*                                                                         *)
(* tableint is a 32-bit unsigned int.  Its values are kept at full width   *)
(* as pairs <<hi, lo>> of 16-bit halves, so that (tableint)-1 is           *)
(* <<65535, 65535>>.                                                       *)
(***************************************************************************)
EXTENDS Integers, FiniteSets, Sequences, TLC

(***************************************************************************)
(* Bounds of the model.                                                    *)
(***************************************************************************)
NumThreads == 2
MaxCalls == 3
NumLiveThreads == 3

\* The threads that call in the runs of a bounded number of calls.
Threads == 1 .. NumThreads

\* The threads that call in the runs where every thread calls again and again.
LiveThreads == 1 .. NumLiveThreads

\* All threads of the process.
AllThreads == Threads \cup LiveThreads

(***************************************************************************)
(* Program constants and value domains.                                    *)
(***************************************************************************)
NUM_SHARDS == 128
HalfWord == 65536

ShardIdx == 0 .. (NUM_SHARDS - 1)

\* labeltype values used by the callers: 1 and 129 share a shard, 2 does not.
Labels == {1, 2, 129}

\* The label the threads that call again and again contend for.
LiveLabels == {1}

\* Conversion of an int in -65536 .. 2^31-1 to unsigned int (tableint).
ToTableint(n) ==
    IF n >= 0 THEN << n \div HalfWord, n % HalfWord >>
    ELSE << HalfWord - 1, HalfWord + n >>

\* ids handed to insert by the callers; the second is the largest tableint.
Ids == { ToTableint(7), << HalfWord - 1, HalfWord - 1 >> }

\* The id the threads that call again and again insert.
LiveIds == { ToTableint(7) }

\* A value-initialised tableint, as created by unordered_map::operator[].
ZeroId == ToTableint(0)

\* The value find returns for an absent label: "-1" converted to tableint.
NotFound == ToTableint(0 - 1)

(***************************************************************************)
(* std::unordered_map<labeltype, tableint> as a function on its key set.   *)
(***************************************************************************)
EmptyMap == [l \in {} |-> ZeroId]

MapHas(m, l) == l \in DOMAIN m

\* Variant: creating the entry of l drops the other entries.
MapIndex_Clobber(m, l) ==
    IF l \in DOMAIN m THEN m ELSE [x \in {l} |-> ZeroId]

\* operator[]: a reference to the entry of l, value-initialised if absent.
MapIndex(m, l) ==
    IF l \in DOMAIN m THEN m
    ELSE [x \in (DOMAIN m) \cup {l} |-> IF x = l THEN ZeroId ELSE m[x]]

\* Variant: the assignment writes the id into every entry of the mapping.
MapAssign_All(m, l, v) == [x \in DOMAIN m |-> v]

\* Variant: the assignment keeps the id of an entry that existed (emplace).
MapAssign_KeepExisting(m, l, v) ==
    [x \in DOMAIN m |-> IF x = l /\ m[x] = ZeroId THEN v ELSE m[x]]

\* Assignment through the reference operator[] returned.
MapAssign(m, l, v) == [x \in DOMAIN m |-> IF x = l THEN v ELSE m[x]]

\* Variant: erase(key) leaves the entry in place.
MapErase_Keep(m, l) == m

\* Variant: erase empties the map (clear).
MapErase_Clear(m, l) == [x \in {} |-> ZeroId]

\* map.erase(key): the map without the key.
MapErase(m, l) == [x \in (DOMAIN m) \ {l} |-> m[x]]

\* Variant: the count does not depend on the key being there.
MapEraseCount_AlwaysOne(m, l) == 1

\* map.erase(key) returns the number of elements removed.
MapEraseCount(m, l) == IF l \in DOMAIN m THEN 1 ELSE 0

\* (it != map.end()) ? it->second : -1
MapFindOrMinus1(m, l) == IF l \in DOMAIN m THEN m[l] ELSE ToTableint(0 - 1)

(***************************************************************************)
(* State.                                                                  *)
(***************************************************************************)
VARIABLES
    shards_,   \* shards_[s] = [map |-> ..., mutex |-> ...]
    pc,        \* per thread: "idle", "lock", "index", "assign", "body", "ret"
    op,        \* per thread: "none", "insert", "find", "erase"
    label,     \* per thread: the label argument
    id,        \* per thread: the id argument of insert
    idx,       \* per thread: the local idx
    ret_find,  \* per thread: the value find is returning
    ret_erase, \* per thread: the value erase is returning
    last,      \* per label: content set by the last completed insert/erase
    expect,    \* per find/erase: content of its label when it was called,
               \* if no insert/erase of that label overlaps the operation
    abs,       \* per label: content after the writers that acquired so far
    exp,       \* per find/erase: content of its label in acquisition order
    removed,   \* labels whose last completed insert/erase is an erase that
               \* returned true
    calls,     \* number of operations invoked so far
    distinctInserts \* every insert/erase so far was an insert of a new label

vars == << shards_, pc, op, label, id, idx, ret_find, ret_erase,
           last, expect, abs, exp, removed, calls, distinctInserts >>

(***************************************************************************)
(* std::shared_mutex: the threads holding it exclusively and shared.       *)
(***************************************************************************)
FreeMutex == [excl |-> {}, shared |-> {}]

\* Variant: lock() never waits.
CanLock_NoWait(m) == TRUE

\* Variant: lock() does not wait for the shared holders.
CanLock_IgnoreReaders(m) == m.excl = {}

\* Variant: one mutex for the whole structure.
CanLock_Global(m) ==
    \A s \in ShardIdx :
        shards_[s].mutex.excl = {} /\ shards_[s].mutex.shared = {}

\* lock() returns once nobody holds the mutex in any mode.
CanLock(m) == m.excl = {} /\ m.shared = {}

\* Variant: lock_shared() waits for the shared holders too.
CanLockShared_WaitsForReaders(m) == m.excl = {} /\ m.shared = {}

\* Variant: lock_shared() lets the threads that wait in lock() go first.
CanLockShared_WritersFirst(m) ==
    /\ m.excl = {}
    /\ ~\E u \in DOMAIN pc :
          /\ pc[u] = "lock" /\ op[u] \in {"insert", "erase"}
          /\ shards_[idx[u]].mutex = m

\* Variant: lock_shared() never waits.
CanLockShared_Always(m) == TRUE

\* lock_shared() returns once nobody holds the mutex exclusively.  The
\* standard gives a thread that waits in lock() no precedence over it.
CanLockShared(m) == m.excl = {}

(***************************************************************************)
(* get_shard_index: std::hash<labeltype>{}(label) % NUM_SHARDS.            *)
(* std::hash of an integral type is the value itself (libstdc++, libc++).  *)
(***************************************************************************)
std_hash(l) == l

\* Variant: the index depends on the current size of a mapping.
get_shard_index_BySize(l) ==
    (std_hash(l) + Cardinality(DOMAIN shards_[1].map)) % NUM_SHARDS

\* Variant: the modulus is not the number of shards.
get_shard_index_OffRange(l) == std_hash(l) % (NUM_SHARDS + 2)

get_shard_index(l) == std_hash(l) % NUM_SHARDS

\* The content of one label: absent, or present with an id.
Absent == [present |-> FALSE, id |-> ZeroId]
Present(v) == [present |-> TRUE, id |-> v]

\* A sequential prediction: known content, or unknown because of overlap.
Unknown == [known |-> FALSE, present |-> FALSE, id |-> ZeroId]
Known(c) == [known |-> TRUE, present |-> c.present, id |-> c.id]

InProgress(t) == pc[t] # "idle"
Mutating(t) == InProgress(t) /\ op[t] \in {"insert", "erase"}
Holding(t) == pc[t] \in {"index", "assign", "body", "ret"}

Init ==
    /\ shards_ = [s \in ShardIdx |-> [map |-> EmptyMap, mutex |-> FreeMutex]]
    /\ pc = [t \in AllThreads |-> "idle"]
    /\ op = [t \in AllThreads |-> "none"]
    /\ label = [t \in AllThreads |-> 0]
    /\ id = [t \in AllThreads |-> ZeroId]
    /\ idx = [t \in AllThreads |-> 0]
    /\ ret_find = [t \in AllThreads |-> ZeroId]
    /\ ret_erase = [t \in AllThreads |-> FALSE]
    /\ last = [l \in Labels |-> Absent]
    /\ expect = [t \in AllThreads |-> Unknown]
    /\ abs = [l \in Labels |-> Absent]
    /\ exp = [t \in AllThreads |-> Absent]
    /\ removed = {}
    /\ calls = 0
    /\ distinctInserts = TRUE

(***************************************************************************)
(* Bookkeeping shared by the three operations.                             *)
(***************************************************************************)
\* Prediction for an operation on l invoked by t now.
PredictAtCall(t, l) ==
    IF \E u \in AllThreads \ {t} : Mutating(u) /\ label[u] = l
    THEN Unknown
    ELSE Known(last[l])

\* A newly invoked insert/erase of l overlaps every operation on l in progress.
Overlap(t, l, mine) ==
    [u \in AllThreads |->
        IF u = t THEN mine
        ELSE IF InProgress(u) /\ label[u] = l THEN Unknown
        ELSE expect[u]]

\* Whether l was the label of an insert invoked before.
InsertedBefore(l) ==
    \/ last[l].present
    \/ \E u \in AllThreads : InProgress(u) /\ op[u] = "insert" /\ label[u] = l

\* Thread t goes back to its caller.
Reset(t) ==
    /\ pc' = [pc EXCEPT ![t] = "idle"]
    /\ op' = [op EXCEPT ![t] = "none"]
    /\ label' = [label EXCEPT ![t] = 0]
    /\ id' = [id EXCEPT ![t] = ZeroId]
    /\ idx' = [idx EXCEPT ![t] = 0]
    /\ ret_find' = [ret_find EXCEPT ![t] = ZeroId]
    /\ ret_erase' = [ret_erase EXCEPT ![t] = FALSE]
    /\ expect' = [expect EXCEPT ![t] = Unknown]
    /\ exp' = [exp EXCEPT ![t] = Absent]

\* Variant: the mutex of the next shard is taken instead.
Acquire_Neighbour(s, t, mode) ==
    [shards_ EXCEPT ![(s + 1) % NUM_SHARDS].mutex[mode] = @ \cup {t}]

\* The mutex of shard s with t added to / removed from its holders.
Acquire(s, t, mode) ==
    [shards_ EXCEPT ![s].mutex[mode] = @ \cup {t}]

\* Variant: the mutex stays held after the return.
Release_Leak(s, t) == shards_

\* Variant: only an exclusive hold is given up.
Release_ExclOnly(s, t) ==
    [shards_ EXCEPT ![s].mutex.excl = @ \ {t}]

\* Variant: only a shared hold is given up.
Release_SharedOnly(s, t) ==
    [shards_ EXCEPT ![s].mutex.shared = @ \ {t}]

Release(s, t) ==
    [shards_ EXCEPT ![s].mutex = [excl |-> @.excl \ {t}, shared |-> @.shared \ {t}]]

(***************************************************************************)
(* void insert(labeltype label, tableint id)                               *)
(***************************************************************************)
\* The call and "size_t idx = get_shard_index(label);"
insert_begin(t, l, v) ==
    /\ pc[t] = "idle"
    /\ pc' = [pc EXCEPT ![t] = "lock"]
    /\ op' = [op EXCEPT ![t] = "insert"]
    /\ label' = [label EXCEPT ![t] = l]
    /\ id' = [id EXCEPT ![t] = v]
    /\ idx' = [idx EXCEPT ![t] = get_shard_index(l)]
    /\ expect' = Overlap(t, l, Unknown)
    /\ distinctInserts' = (distinctInserts /\ ~InsertedBefore(l))
    /\ UNCHANGED << shards_, ret_find, ret_erase, last, abs, exp, removed >>

\* A call counted against the bound on the number of calls.
insert_call(t, l, v) ==
    /\ calls < MaxCalls
    /\ insert_begin(t, l, v)
    /\ calls' = calls + 1

\* A call of a thread that calls again and again.
insert_again(t, l, v) == insert_begin(t, l, v) /\ UNCHANGED calls

\* "std::unique_lock<std::shared_mutex> lock(shards_[idx].mutex);"
insert_lock(t) ==
    /\ pc[t] = "lock" /\ op[t] = "insert"
    /\ CanLock(shards_[idx[t]].mutex)
    /\ shards_' = Acquire(idx[t], t, "excl")
    /\ pc' = [pc EXCEPT ![t] = "index"]
    /\ abs' = [abs EXCEPT ![label[t]] = Present(id[t])]
    /\ UNCHANGED << op, label, id, idx, ret_find, ret_erase, last, expect,
                    exp, removed, calls, distinctInserts >>

\* "shards_[idx].map[label]": operator[] finds or creates the entry.
insert_index(t) ==
    /\ pc[t] = "index"
    /\ shards_' = [shards_ EXCEPT ![idx[t]].map = MapIndex(@, label[t])]
    /\ pc' = [pc EXCEPT ![t] = "assign"]
    /\ UNCHANGED << op, label, id, idx, ret_find, ret_erase, last, expect,
                    abs, exp, removed, calls, distinctInserts >>

\* "... = id;"
insert_assign(t) ==
    /\ pc[t] = "assign"
    /\ shards_' = [shards_ EXCEPT ![idx[t]].map = MapAssign(@, label[t], id[t])]
    /\ pc' = [pc EXCEPT ![t] = "ret"]
    /\ UNCHANGED << op, label, id, idx, ret_find, ret_erase, last, expect,
                    abs, exp, removed, calls, distinctInserts >>

\* End of scope: the unique_lock releases the mutex, insert returns.
insert_return(t) ==
    /\ pc[t] = "ret" /\ op[t] = "insert"
    /\ shards_' = Release(idx[t], t)
    /\ last' = [last EXCEPT ![label[t]] = Present(id[t])]
    /\ removed' = removed \ {label[t]}
    /\ Reset(t)
    /\ UNCHANGED << abs, calls, distinctInserts >>

(***************************************************************************)
(* tableint find(labeltype label) const                                    *)
(***************************************************************************)
find_begin(t, l) ==
    /\ pc[t] = "idle"
    /\ pc' = [pc EXCEPT ![t] = "lock"]
    /\ op' = [op EXCEPT ![t] = "find"]
    /\ label' = [label EXCEPT ![t] = l]
    /\ idx' = [idx EXCEPT ![t] = get_shard_index(l)]
    /\ expect' = [expect EXCEPT ![t] = PredictAtCall(t, l)]
    /\ UNCHANGED << shards_, id, ret_find, ret_erase, last, abs, exp,
                    removed, distinctInserts >>

find_call(t, l) ==
    /\ calls < MaxCalls
    /\ find_begin(t, l)
    /\ calls' = calls + 1

find_again(t, l) == find_begin(t, l) /\ UNCHANGED calls

\* "std::shared_lock<std::shared_mutex> lock(shards_[idx].mutex);"
find_lock(t) ==
    /\ pc[t] = "lock" /\ op[t] = "find"
    /\ CanLockShared(shards_[idx[t]].mutex)
    /\ shards_' = Acquire(idx[t], t, "shared")
    /\ pc' = [pc EXCEPT ![t] = "body"]
    /\ exp' = [exp EXCEPT ![t] = abs[label[t]]]
    /\ UNCHANGED << op, label, id, idx, ret_find, ret_erase, last, expect,
                    abs, removed, calls, distinctInserts >>

\* Variant: the lookup goes through operator[] ("return map[label];").
find_body_Index(t) ==
    /\ pc[t] = "body" /\ op[t] = "find"
    /\ shards_' = [shards_ EXCEPT ![idx[t]].map = MapIndex(@, label[t])]
    /\ ret_find' = [ret_find EXCEPT
                      ![t] = MapIndex(shards_[idx[t]].map, label[t])[label[t]]]
    /\ pc' = [pc EXCEPT ![t] = "ret"]
    /\ UNCHANGED << op, label, id, idx, ret_erase, last, expect,
                    abs, exp, removed, calls, distinctInserts >>

\* "auto it = map.find(label); return (it != map.end()) ? it->second : -1;"
find_body(t) ==
    /\ pc[t] = "body" /\ op[t] = "find"
    /\ ret_find' = [ret_find EXCEPT
                      ![t] = MapFindOrMinus1(shards_[idx[t]].map, label[t])]
    /\ pc' = [pc EXCEPT ![t] = "ret"]
    /\ UNCHANGED << shards_, op, label, id, idx, ret_erase, last, expect,
                    abs, exp, removed, calls, distinctInserts >>

\* End of scope: the shared_lock releases the mutex, find returns.
find_return(t) ==
    /\ pc[t] = "ret" /\ op[t] = "find"
    /\ shards_' = Release(idx[t], t)
    /\ Reset(t)
    /\ UNCHANGED << last, abs, removed, calls, distinctInserts >>

(***************************************************************************)
(* bool erase(labeltype label)                                             *)
(***************************************************************************)
erase_begin(t, l) ==
    /\ pc[t] = "idle"
    /\ pc' = [pc EXCEPT ![t] = "lock"]
    /\ op' = [op EXCEPT ![t] = "erase"]
    /\ label' = [label EXCEPT ![t] = l]
    /\ idx' = [idx EXCEPT ![t] = get_shard_index(l)]
    /\ expect' = Overlap(t, l, PredictAtCall(t, l))
    /\ distinctInserts' = FALSE
    /\ UNCHANGED << shards_, id, ret_find, ret_erase, last, abs, exp, removed >>

erase_call(t, l) ==
    /\ calls < MaxCalls
    /\ erase_begin(t, l)
    /\ calls' = calls + 1

erase_again(t, l) == erase_begin(t, l) /\ UNCHANGED calls

\* "std::unique_lock<std::shared_mutex> lock(shards_[idx].mutex);"
erase_lock(t) ==
    /\ pc[t] = "lock" /\ op[t] = "erase"
    /\ CanLock(shards_[idx[t]].mutex)
    /\ shards_' = Acquire(idx[t], t, "excl")
    /\ pc' = [pc EXCEPT ![t] = "body"]
    /\ exp' = [exp EXCEPT ![t] = abs[label[t]]]
    /\ abs' = [abs EXCEPT ![label[t]] = Absent]
    /\ UNCHANGED << op, label, id, idx, ret_find, ret_erase, last, expect,
                    removed, calls, distinctInserts >>

\* "return shards_[idx].map.erase(label) > 0;"
erase_body(t) ==
    /\ pc[t] = "body" /\ op[t] = "erase"
    /\ ret_erase' = [ret_erase EXCEPT
                       ![t] = (MapEraseCount(shards_[idx[t]].map, label[t]) > 0)]
    /\ shards_' = [shards_ EXCEPT ![idx[t]].map = MapErase(@, label[t])]
    /\ pc' = [pc EXCEPT ![t] = "ret"]
    /\ UNCHANGED << op, label, id, idx, ret_find, last, expect,
                    abs, exp, removed, calls, distinctInserts >>

\* End of scope: the unique_lock releases the mutex, erase returns.
erase_return(t) ==
    /\ pc[t] = "ret" /\ op[t] = "erase"
    /\ shards_' = Release(idx[t], t)
    /\ last' = [last EXCEPT ![label[t]] = Absent]
    /\ removed' = IF ret_erase[t] THEN removed \cup {label[t]} ELSE removed
    /\ Reset(t)
    /\ UNCHANGED << abs, calls, distinctInserts >>

(***************************************************************************)
(* The callers: any thread may invoke any operation at any time.           *)
(***************************************************************************)
Next ==
    \E t \in Threads :
        \/ \E l \in Labels, v \in Ids : insert_call(t, l, v)
        \/ insert_lock(t)
        \/ insert_index(t)
        \/ insert_assign(t)
        \/ insert_return(t)
        \/ \E l \in Labels : find_call(t, l)
        \/ find_lock(t)
        \/ find_body(t)
        \/ find_return(t)
        \/ \E l \in Labels : erase_call(t, l)
        \/ erase_lock(t)
        \/ erase_body(t)
        \/ erase_return(t)

Spec == Init /\ [][Next]_vars

(***************************************************************************)
(* The callers that never stop: every thread calls again as soon as its    *)
(* operation returned.  A thread that is inside an operation keeps running *)
(* (weak fairness of its steps under the mutex and of its return).  What   *)
(* is assumed of the acquisition of a mutex differs:                       *)
(*   FairSpec      a thread whose acquisition is possible again and again  *)
(*                 acquires (strong fairness);                             *)
(*   WeakFairSpec  a thread whose acquisition stays possible acquires      *)
(*                 (weak fairness).                                        *)
(***************************************************************************)
\* The acquisition of the mutex by the operation of t.
LockStep(t) == insert_lock(t) \/ find_lock(t) \/ erase_lock(t)

\* The steps of t between the acquisition and the return, and the return.
LockedStep(t) ==
    \/ insert_index(t) \/ insert_assign(t) \/ insert_return(t)
    \/ find_body(t) \/ find_return(t)
    \/ erase_body(t) \/ erase_return(t)

LiveNext ==
    \E t \in LiveThreads :
        \/ \E l \in LiveLabels, v \in LiveIds : insert_again(t, l, v)
        \/ insert_lock(t)
        \/ insert_index(t)
        \/ insert_assign(t)
        \/ insert_return(t)
        \/ \E l \in LiveLabels : find_again(t, l)
        \/ find_lock(t)
        \/ find_body(t)
        \/ find_return(t)
        \/ \E l \in LiveLabels : erase_again(t, l)
        \/ erase_lock(t)
        \/ erase_body(t)
        \/ erase_return(t)

FairSpec ==
    /\ Init /\ [][LiveNext]_vars
    /\ \A t \in LiveThreads : WF_vars(LockedStep(t)) /\ SF_vars(LockStep(t))

WeakFairSpec ==
    /\ Init /\ [][LiveNext]_vars
    /\ \A t \in LiveThreads : WF_vars(LockedStep(t)) /\ WF_vars(LockStep(t))

(***************************************************************************)
(* Views of the state used by the properties.                              *)
(***************************************************************************)
\* What a caller reads from a find that sees content c.
AsFound(c) == IF c.present THEN c.id ELSE NotFound

\* The shards whose mapping has an entry, found by a scan of all shards.
NonEmptyShards == {s \in ShardIdx : shards_[s].map # EmptyMap}

\* The shards whose mutex some thread holds, found by a scan of all shards.
LockedShards == {s \in ShardIdx : shards_[s].mutex # FreeMutex}

\* The shards whose mapping holds label l.
ShardsHolding(l) == {s \in NonEmptyShards : MapHas(shards_[s].map, l)}

\* The labels found by scanning the mappings of all shards.
ScanLabels == UNION {DOMAIN shards_[s].map : s \in NonEmptyShards}

\* The number of entries over all shards: one per shard and key of its map.
TotalEntries ==
    Cardinality(UNION {{s} \X DOMAIN shards_[s].map : s \in NonEmptyShards})

\* The guard of the acquisition thread t is waiting at.
CanAcquire(t) ==
    IF op[t] = "find" THEN CanLockShared(shards_[idx[t]].mutex)
    ELSE CanLock(shards_[idx[t]].mutex)

AllIdle == \A t \in Threads : pc[t] = "idle"

TypeOK ==
    /\ \A s \in ShardIdx :
          /\ DOMAIN shards_[s].map \subseteq Labels
          /\ shards_[s].mutex.excl \subseteq Threads
          /\ shards_[s].mutex.shared \subseteq Threads
    /\ \A t \in Threads :
          /\ pc[t] \in {"idle", "lock", "index", "assign", "body", "ret"}
          /\ op[t] \in {"none", "insert", "find", "erase"}
    /\ calls \in 0 .. MaxCalls
    /\ removed \subseteq Labels

(***************************************************************************)
(* C1 (P1, uniqueness).  A find(L) that no insert/erase of L overlaps      *)
(* returns the id of the last completed insert(L, id) if the last          *)
(* completed insert/erase of L is that insert, and not-found if it is an   *)
(* erase or there is none.  Operations on other labels may overlap the     *)
(* find freely: they never change what it returns.                         *)
(***************************************************************************)
C1_FindReturnsLastWritten ==
    \A t \in Threads :
        (pc[t] = "ret" /\ op[t] = "find" /\ expect[t].known)
            => ret_find[t] = AsFound(expect[t])

\* A find returns the id written for its label while the other thread is in
\* the middle of an insert/erase of another label of the same shard.
C1_Witness ==
    \E t \in Threads, u \in Threads :
        /\ pc[t] = "ret" /\ op[t] = "find"
        /\ expect[t].known /\ expect[t].present
        /\ ret_find[t] = expect[t].id
        /\ u # t /\ Mutating(u)
        /\ idx[u] = idx[t] /\ label[u] # label[t]

(***************************************************************************)
(* C2 (P2, idempotent erase).  An erase(L) that no other insert/erase of L *)
(* overlaps returns false and leaves the mapping of every shard unchanged  *)
(* when L is absent, and returns true when L is present; so an erase       *)
(* issued right after an erase of the same label returns false.            *)
(***************************************************************************)
C2_EraseResult ==
    \A t \in Threads :
        (pc[t] = "ret" /\ op[t] = "erase" /\ expect[t].known)
            => ret_erase[t] = expect[t].present

C2_EraseAbsentStep ==
    \A t \in Threads :
        (/\ pc[t] = "body" /\ op[t] = "erase" /\ pc'[t] = "ret"
         /\ expect[t].known /\ ~expect[t].present)
            => /\ \A s \in ShardIdx : shards_'[s].map = shards_[s].map
               /\ ret_erase'[t] = FALSE

C2_IdempotentErase == [](C2_EraseResult) /\ [][C2_EraseAbsentStep]_vars

\* The second of two erases in a row is returning false.
C2_Witness ==
    \E t \in Threads :
        /\ pc[t] = "ret" /\ op[t] = "erase"
        /\ expect[t].known /\ ~expect[t].present
        /\ label[t] \in removed
        /\ ret_erase[t] = FALSE

(***************************************************************************)
(* C3 (I1).  Every label that is present is a key of the mapping of the    *)
(* shard get_shard_index selects for it and of no other shard's mapping;   *)
(* being a key of a map, it has exactly one id there.                      *)
(***************************************************************************)
C3_OneShardPerLabel ==
    \A s \in NonEmptyShards :
        \A l \in DOMAIN shards_[s].map :
            /\ s = get_shard_index(l)
            /\ \A r \in NonEmptyShards : MapHas(shards_[r].map, l) => r = s

\* One shard holds two labels while a thread works under the mutex of another.
C3_Witness ==
    /\ \E s \in ShardIdx : Cardinality(DOMAIN shards_[s].map) = 2
    /\ \E t \in Threads : Holding(t) /\ shards_[idx[t]].map = EmptyMap

(***************************************************************************)
(* C4.  The mutex of a shard is held by any number of finds, or by exactly *)
(* one insert or erase, never by both kinds and never by two writers.      *)
(***************************************************************************)
C4_ReadersOrOneWriter ==
    /\ \A s \in LockedShards :
          LET m == shards_[s].mutex IN
          /\ Cardinality(m.excl) <= 1
          /\ m.excl # {} => m.shared = {}
          /\ \A t \in m.excl : op[t] \in {"insert", "erase"} /\ Holding(t)
          /\ \A t \in m.shared : op[t] = "find" /\ Holding(t)
    /\ \A t \in Threads :
          Holding(t) =>
              LET m == shards_[idx[t]].mutex
              IN  IF op[t] = "find" THEN t \in m.shared ELSE t \in m.excl

\* A writer holds the mutex of a shard a find is waiting for.
C4_Witness ==
    \E t \in Threads, u \in Threads :
        /\ Holding(t) /\ op[t] \in {"insert", "erase"}
        /\ pc[u] = "lock" /\ op[u] = "find" /\ idx[u] = idx[t]

(***************************************************************************)
(* C5 (I3).  The result of every operation is the result it has when the   *)
(* operations of its shard run one after the other in the order in which   *)
(* they acquired the mutex; in particular no find returns the value of an  *)
(* entry that operator[] created and insert has not assigned yet.          *)
(***************************************************************************)
C5_ResultsInLockOrder ==
    \A t \in Threads :
        pc[t] = "ret" =>
            /\ op[t] = "find" => ret_find[t] = AsFound(exp[t])
            /\ op[t] = "erase" => ret_erase[t] = exp[t].present
            /\ op[t] = "insert" =>
                  MapFindOrMinus1(shards_[idx[t]].map, label[t]) = id[t]

\* A find returns an id while an insert of another id for the same label waits.
C5_Witness ==
    \E t \in Threads, u \in Threads :
        /\ pc[t] = "ret" /\ op[t] = "find" /\ ret_find[t] \in Ids
        /\ pc[u] = "lock" /\ op[u] = "insert"
        /\ label[u] = label[t] /\ id[u] # ret_find[t]

(***************************************************************************)
(* C6.  A thread holds at most one shard mutex: the mutex of shard         *)
(* get_shard_index(label) while it executes the locked part of an          *)
(* operation on label, and none otherwise.                                 *)
(***************************************************************************)
C6_AtMostOneShardLock ==
    /\ \A s \in LockedShards :
          /\ \A t \in shards_[s].mutex.excl :
                Holding(t) /\ s = get_shard_index(label[t])
          /\ \A t \in shards_[s].mutex.shared :
                Holding(t) /\ s = get_shard_index(label[t])
    /\ \A t \in Threads :
          Holding(t) =>
              LET m == shards_[get_shard_index(label[t])].mutex
              IN  t \in m.excl \cup m.shared

\* A find and a writer hold the mutexes of two different shards at the same
\* time, the find that of a shard whose mapping already has an entry.
C6_Witness ==
    \E t \in Threads, u \in Threads :
        /\ Holding(t) /\ op[t] = "find"
        /\ Holding(u) /\ op[u] \in {"insert", "erase"}
        /\ idx[t] # idx[u]
        /\ shards_[idx[t]].map # EmptyMap

C8_PartitionCoverage ==
    AllIdle =>
        /\ ScanLabels = {l \in Labels : last[l].present}
        /\ TotalEntries = Cardinality({l \in Labels : last[l].present})
        /\ \A l \in Labels : Cardinality(ShardsHolding(l)) <= 1

\* After two inserts into one shard and the erase of one of the two labels.
C8_Witness ==
    /\ AllIdle
    /\ removed # {}
    /\ \E l \in Labels :
          /\ last[l].present
          /\ \E k \in removed : get_shard_index(k) = get_shard_index(l)

(***************************************************************************)
(* C9 (P5, concurrent independence).  A thread waiting for the mutex of a  *)
(* shard can acquire it unless a thread working on that same shard holds   *)
(* it: locks held on other shards never block it.  And when the last       *)
(* completed writes of two labels of different shards are inserts and no   *)
(* insert/erase of either is in progress, each label is found with the id  *)
(* inserted for it.                                                        *)
(***************************************************************************)
\* The operation of t on its shard can be held up by the one of u.
Conflicts(t, u) == op[t] # "find" \/ op[u] # "find"

C9_NoBlockingAcrossShards ==
    \A t \in Threads :
        pc[t] = "lock" =>
            \/ CanAcquire(t)
            \/ \E u \in Threads \ {t} :
                  /\ Holding(u) /\ Conflicts(t, u)
                  /\ get_shard_index(label[u]) = get_shard_index(label[t])

C9_BothVisible ==
    \A a \in Labels, b \in Labels :
        (/\ get_shard_index(a) # get_shard_index(b)
         /\ last[a].present /\ last[b].present
         /\ \A t \in Threads : Mutating(t) => label[t] \notin {a, b})
            => /\ MapFindOrMinus1(shards_[get_shard_index(a)].map, a) = last[a].id
               /\ MapFindOrMinus1(shards_[get_shard_index(b)].map, b) = last[b].id

C9_ConcurrentIndependence == C9_NoBlockingAcrossShards /\ C9_BothVisible

\* Two inserts write under the mutexes of two different shards at once.
C9_Witness ==
    \E t \in Threads, u \in Threads :
        /\ op[t] = "insert" /\ pc[t] = "assign"
        /\ op[u] = "insert" /\ pc[u] = "assign"
        /\ idx[t] # idx[u]

(***************************************************************************)
(* C10 (no lost updates).  When all insert/erase calls so far are inserts  *)
(* of pairwise distinct labels and all of them have completed, every       *)
(* inserted label is found with the id written for it and the number of    *)
(* entries over all shards is the number of labels inserted.               *)
(***************************************************************************)
C10_NoLostInserts ==
    (distinctInserts /\ \A t \in Threads : ~Mutating(t)) =>
        LET inserted == {l \in Labels : last[l].present} IN
        /\ \A l \in inserted :
              MapFindOrMinus1(shards_[get_shard_index(l)].map, l) = last[l].id
        /\ TotalEntries = Cardinality(inserted)

\* Three distinct labels, two of them of one shard, have been inserted.
C10_Witness ==
    /\ distinctInserts
    /\ \A t \in Threads : ~Mutating(t)
    /\ \A l \in Labels : last[l].present

(***************************************************************************)
(* The content of label l in the mappings, and whether an insert or erase  *)
(* of l is between its acquisition of the mutex and its return.            *)
(***************************************************************************)
Content(l) ==
    LET m == shards_[get_shard_index(l)].map
    IN  IF MapHas(m, l) THEN Present(m[l]) ELSE Absent

WriterInside(l) ==
    \E t \in AllThreads :
        Holding(t) /\ op[t] \in {"insert", "erase"} /\ label[t] = l

\* C11: when insert(L, id) and erase(L) race, the one that acquires the
\* exclusive lock last decides: once no insert or erase of L is inside its
\* critical section, L is present with the id of the insert if the insert
\* acquired last and absent if the erase acquired last; an erase that acquired
\* after the insert returns true; an insert that acquired leaves L with its id.
C11_LastLockerDecides ==
    /\ \A l \in Labels : ~WriterInside(l) => Content(l) = abs[l]
    /\ \A t \in Threads :
          (pc[t] = "ret" /\ op[t] = "erase" /\ exp[t].present)
              => ret_erase[t] /\ Content(label[t]) = Absent
    /\ \A t \in Threads :
          (pc[t] = "ret" /\ op[t] = "insert")
              => Content(label[t]) = Present(id[t])

\* The insert and the erase of one label overlapped, the erase acquired last.
C11_Witness ==
    \E t \in Threads, u \in Threads :
        /\ pc[u] = "ret" /\ op[u] = "erase" /\ ret_erase[u]
        /\ ~expect[u].known /\ exp[u].present
        /\ calls = 2
        /\ pc[t] = "idle" /\ last[label[u]].present
        /\ Content(label[u]) = Absent

\* C12: finds of one shard hold its lock in shared mode together, and a find
\* waits for the lock only while an insert or erase holds the lock of that
\* same shard exclusively.
C12_FindBlockedOnlyByWriter ==
    /\ \A t \in Threads :
          (pc[t] = "lock" /\ op[t] = "find"
              /\ ~CanLockShared(shards_[idx[t]].mutex))
              => \E u \in Threads \ {t} :
                     /\ op[u] \in {"insert", "erase"} /\ Holding(u)
                     /\ idx[u] = idx[t]
                     /\ u \in shards_[idx[t]].mutex.excl
    /\ \A t \in Threads :
          (pc[t] = "lock" /\ op[t] = "find"
              /\ shards_[idx[t]].mutex.shared # {})
              => CanLockShared(shards_[idx[t]].mutex)

\* Two finds of different labels hold the lock of one shard together.
C12_Witness ==
    \E t \in Threads, u \in Threads :
        /\ t # u
        /\ op[t] = "find" /\ op[u] = "find"
        /\ label[t] # label[u] /\ idx[t] = idx[u]
        /\ pc[t] = "body" /\ pc[u] = "ret"
        /\ {t, u} \subseteq shards_[idx[t]].mutex.shared

(***************************************************************************)
(* C13.  Freedom from deadlock and termination of every call, for threads  *)
(* that call again and again (FairSpec).                                   *)
(***************************************************************************)
\* Thread t can take its next step.
CanStep(t) == InProgress(t) /\ (pc[t] = "lock" => CanAcquire(t))

\* No deadlock: when an operation is pending some thread can take a step.
C13_NoDeadlock ==
    (\E t \in LiveThreads : InProgress(t)) => \E t \in LiveThreads : CanStep(t)

\* Every invoked operation eventually returns.
C13_EveryCallReturns ==
    \A t \in LiveThreads : InProgress(t) ~> (pc[t] = "idle")

\* C13 as stated: no reachable state is a deadlock and, with threads inside
\* an operation kept running and strongly fair lock acquisition, every invoked
\* insert, find and erase eventually returns.
C13_DeadlockFreeAndLive == []C13_NoDeadlock /\ C13_EveryCallReturns

\* C13 amended: no reachable state is a deadlock; under the same fairness
\* every invoked find eventually returns and every insert or erase that has
\* acquired its lock eventually returns.  (An insert or erase waiting for a
\* lock that overlapping finds keep held in shared mode need not return.)
C13_DeadlockFreeFindsLive ==
    /\ []C13_NoDeadlock
    /\ \A t \in LiveThreads :
          (InProgress(t) /\ op[t] = "find") ~> (pc[t] = "idle")
    /\ \A t \in LiveThreads : Holding(t) ~> (pc[t] = "idle")

\* A find and an erase wait for a shard while an insert holds it exclusively.
C13_Witness ==
    \E t \in LiveThreads, u \in LiveThreads, w \in LiveThreads :
        /\ op[w] = "insert" /\ pc[w] = "assign"
        /\ op[t] = "find" /\ pc[t] = "lock" /\ idx[t] = idx[w]
        /\ op[u] = "erase" /\ pc[u] = "lock" /\ idx[u] = idx[w]

\* C14: of the erase(L) calls that run concurrently on a present L, with no
\* insert of L, exactly one returns true: an erase returns true exactly when
\* the last insert or erase of L that returned before it is an insert, and
\* while an erase that returned true has not left, every other erase of L in
\* progress is still waiting for the lock.
C14_OneEraseWins ==
    /\ \A t \in Threads :
          (pc[t] = "ret" /\ op[t] = "erase")
              => ret_erase[t] = last[label[t]].present
    /\ \A t \in Threads, u \in Threads :
          (t # u /\ pc[t] = "ret" /\ op[t] = "erase" /\ ret_erase[t]
              /\ InProgress(u) /\ op[u] = "erase" /\ label[u] = label[t])
              => pc[u] = "lock"
    /\ \A t \in Threads :
          (pc[t] = "ret" /\ op[t] = "erase" /\ label[t] \in removed
              /\ ~last[label[t]].present)
              => ~ret_erase[t]

\* After one insert two erases of its label overlapped: the first returned
\* true, the second is about to return false.
C14_Witness ==
    \E u \in Threads :
        /\ pc[u] = "ret" /\ op[u] = "erase" /\ ~ret_erase[u]
        /\ ~expect[u].known
        /\ label[u] \in removed
        /\ calls = 3
        /\ \A t \in Threads \ {u} : pc[t] = "idle"

(***************************************************************************)
(* C15.  The frame of insert.                                              *)
(***************************************************************************)
\* The step is a step of the insert of t under its lock.
InsertStepOf(t) ==
    op[t] = "insert" /\ pc[t] \in {"index", "assign"} /\ pc'[t] # pc[t]

\* What a step of insert(L, id) under the lock may change: only the mapping
\* of shard get_shard_index(L), where the entry of L appears if it was absent
\* (one entry more) and otherwise the number of entries stays, every other
\* label keeps its entry and its id, and L has the id once assigned.
InsertFrame(t) ==
    LET i == get_shard_index(label[t])
        m == shards_[i].map
        n == shards_'[i].map
    IN  /\ shards_' = [shards_ EXCEPT ![i].map = n]
        /\ DOMAIN n = DOMAIN m \cup {label[t]}
        /\ \A k \in DOMAIN m \ {label[t]} : n[k] = m[k]
        /\ Cardinality(DOMAIN n) =
              Cardinality(DOMAIN m) + (IF MapHas(m, label[t]) THEN 0 ELSE 1)
        /\ pc'[t] = "ret" => n[label[t]] = id[t]

\* Nobody else changes that mapping between the two steps of the insert.
InsertUndisturbed(t) ==
    (op[t] = "insert" /\ pc[t] \in {"index", "assign"} /\ pc'[t] = pc[t])
        => shards_'[idx[t]].map = shards_[idx[t]].map

\* C15: insert(L, id) changes nothing but the entry of L in the mapping of
\* shard get_shard_index(L): the number of entries of that shard grows by
\* exactly one if L was absent and is unchanged if L was present, the other
\* labels of the shard keep their ids, and every other shard is unchanged.
C15_InsertChangesOnlyItsEntry ==
    [][\A t \in Threads :
          /\ InsertStepOf(t) => InsertFrame(t)
          /\ InsertUndisturbed(t)]_vars

\* An insert has added its label to a shard that held another label, which
\* keeps its different id.
C15_Witness ==
    \E t \in Threads :
        /\ pc[t] = "ret" /\ op[t] = "insert"
        /\ \E k \in DOMAIN shards_[idx[t]].map :
              /\ k # label[t]
              /\ shards_[idx[t]].map[k] # id[t]
              /\ shards_[idx[t]].map[k] # ZeroId
        /\ shards_[idx[t]].map[label[t]] = id[t]
        /\ ~last[label[t]].present

(***************************************************************************)
(* C16.  The locking discipline.                                           *)
(***************************************************************************)
\* The step of t reads or writes the mapping of a shard.
AccessesMap(t) == pc[t] \in {"index", "assign", "body"} /\ pc'[t] # pc[t]

\* A step of t that accesses a mapping accesses that of shard idx[t], the
\* index of the label, with the mutex of that shard held by t before and
\* after the access: exclusively for insert and erase, shared for find.
AccessUnderLock(t) ==
    LET i == idx[t]
        mode == IF op[t] = "find" THEN "shared" ELSE "excl"
    IN  /\ i = get_shard_index(label[t])
        /\ t \in shards_[i].mutex[mode]
        /\ t \in shards_'[i].mutex[mode]
        /\ shards_' = [shards_ EXCEPT ![i].map = shards_'[i].map]
        /\ op[t] = "find" => shards_' = shards_

\* A step of t that does not access a mapping changes no mapping; the call
\* computes the index and takes no mutex; the acquisition keeps the index.
NoAccessOtherwise(t) ==
    /\ pc[t] = "idle" =>
          /\ shards_' = shards_
          /\ idx'[t] = get_shard_index(label'[t])
    /\ pc[t] = "lock" =>
          /\ idx'[t] = idx[t] /\ idx[t] = get_shard_index(label[t])
          /\ t \notin shards_[idx[t]].mutex.excl \cup shards_[idx[t]].mutex.shared
          /\ shards_' = [shards_ EXCEPT ![idx[t]].mutex = shards_'[idx[t]].mutex]
    /\ pc[t] = "ret" =>
          shards_' = [shards_ EXCEPT ![idx[t]].mutex = shards_'[idx[t]].mutex]

\* C16: every read or write of the mapping of a shard is made by a thread
\* that holds the lock of that shard, exclusively for insert and erase and
\* shared for find, and the index of the shard is computed before the lock is
\* acquired.
C16_AccessOnlyUnderShardLock ==
    [][\A t \in Threads :
          pc'[t] # pc[t] =>
              IF AccessesMap(t) THEN AccessUnderLock(t)
              ELSE NoAccessOtherwise(t)]_vars

\* An insert is between its two writes while a find of another shard has
\* read an entry there.
C16_Witness ==
    \E t \in Threads, u \in Threads :
        /\ op[t] = "insert" /\ pc[t] = "assign"
        /\ t \in shards_[idx[t]].mutex.excl
        /\ op[u] = "find" /\ pc[u] = "ret" /\ idx[u] # idx[t]
        /\ u \in shards_[idx[u]].mutex.shared
        /\ ret_find[u] = ToTableint(7)

\* C17: find(L) returns the not-found value exactly when L is absent from
\* the mapping while find holds the shard lock, whatever id was inserted, the
\* largest unsigned value included.
C17_SentinelIffAbsent ==
    \A t \in Threads :
        (pc[t] = "ret" /\ op[t] = "find")
            => ((ret_find[t] = NotFound)
                    <=> ~MapHas(shards_[idx[t]].map, label[t]))

(***************************************************************************)
(* C18.  find and get_shard_index are read-only.                           *)
(***************************************************************************)
\* The step is a step of a find of t, its call and its return included.
FindStepOf(t) == pc'[t] # pc[t] /\ (op[t] = "find" \/ op'[t] = "find")

\* A step of find leaves every mapping as it is; the lookup changes nothing
\* of the shards, and for an absent label it creates no entry.
FindReadsOnly(t) ==
    LET i == IF pc[t] = "idle" THEN idx'[t] ELSE idx[t]
    IN  /\ shards_' = [shards_ EXCEPT ![i].mutex = shards_'[i].mutex]
        /\ shards_'[i].map = shards_[i].map
        /\ pc[t] = "body" =>
              /\ shards_' = shards_
              /\ ~MapHas(shards_[i].map, label[t]) =>
                    /\ ~MapHas(shards_'[i].map, label[t])
                    /\ ret_find'[t] = NotFound

\* The computation of the shard index, made by the call step of each
\* operation, changes nothing of the shards and takes no mutex.
ShardIndexReadsOnly(t) ==
    (pc[t] = "idle" /\ pc'[t] # "idle") =>
        /\ shards_' = shards_
        /\ idx'[t] = get_shard_index(label'[t])
        /\ ~Holding(t)'

\* C18: find and the shard index computation are read-only: find changes no
\* mapping and never creates an entry for an absent label; computing the
\* shard index changes no state of the structure and acquires no lock.
C18_FindAndIndexReadOnly ==
    [][\A t \in Threads :
          /\ FindStepOf(t) => FindReadsOnly(t)
          /\ ShardIndexReadsOnly(t)]_vars

\* A find of a label that is absent from a shard holding another label is
\* about to return the not-found value; the shard still has one entry.
C18_Witness ==
    \E t \in Threads :
        /\ pc[t] = "ret" /\ op[t] = "find"
        /\ ret_find[t] = NotFound
        /\ ~MapHas(shards_[idx[t]].map, label[t])
        /\ Cardinality(DOMAIN shards_[idx[t]].map) = 1

\* C19: every operation releases its lock before it returns, on every path
\* (label found or not, entry removed or not): when no operation is in
\* progress no mutex is held, and a thread that waits for a mutex or has
\* returned is not among the holders of the mutex of its shard.
C19_LocksReleasedOnReturn ==
    /\ AllIdle => LockedShards = {}
    /\ \A t \in Threads :
          pc[t] \in {"idle", "lock"} =>
              t \notin shards_[idx[t]].mutex.excl \cup shards_[idx[t]].mutex.shared
    /\ \A t \in Threads :
          pc[t] = "lock" => (CanAcquire(t) \/ \E u \in Threads \ {t} : Holding(u))

\* Three operations have returned, among them an insert and an erase that
\* removed the entry; nothing is left in the shards and no mutex is held.
C19_Witness ==
    /\ AllIdle /\ calls = 3
    /\ removed # {}
    /\ NonEmptyShards = {}
    /\ LockedShards = {}
    /\ ~distinctInserts

(***************************************************************************)
(* C20.  No fairness of the mutex towards the writers (WeakFairSpec).      *)
(***************************************************************************)
\* The insert or erase of w waits for a shard that finds hold in shared mode,
\* and every other thread is idle or inside a find of that shard.
WriterStarved(w) ==
    /\ pc[w] = "lock" /\ op[w] \in {"insert", "erase"}
    /\ \E r \in LiveThreads : op[r] = "find" /\ Holding(r) /\ idx[r] = idx[w]
    /\ \A r \in LiveThreads \ {w} :
          pc[r] = "idle" \/ (op[r] = "find" /\ idx[r] = idx[w])

\* A step of a find of another thread after which w is still starved.
KeepStarving(w) ==
    /\ \E r \in LiveThreads \ {w} :
          \/ \E l \in LiveLabels :
                get_shard_index(l) = idx[w] /\ find_again(r, l)
          \/ find_lock(r)
          \/ find_body(r)
          \/ find_return(r)
    /\ WriterStarved(w)'

\* C20: the mutex gives the writers no precedence over the readers.  While
\* an insert or erase waits for a shard that no writer holds, every find that
\* waits for that shard, whenever it arrived, can acquire the shared lock
\* ahead of it; and while finds hold the shard the writer cannot acquire and
\* some step of a find keeps it so, so that overlapping finds can keep the
\* writer waiting for ever although every thread keeps taking steps.
C20_NoWriterPrecedence ==
    \A w \in LiveThreads :
        /\ (pc[w] = "lock" /\ op[w] \in {"insert", "erase"}) =>
              \A r \in LiveThreads :
                  (pc[r] = "lock" /\ op[r] = "find" /\ idx[r] = idx[w]
                      /\ shards_[idx[w]].mutex.excl = {})
                      => CanAcquire(r)
        /\ WriterStarved(w) => (~CanAcquire(w) /\ ENABLED KeepStarving(w))

\* An insert waits for the shard, one find holds it and is about to leave, a
\* second find of the shard is about to acquire ahead of the insert.
C20_Witness ==
    \E w \in LiveThreads, r \in LiveThreads, q \in LiveThreads :
        /\ WriterStarved(w) /\ op[w] = "insert"
        /\ op[r] = "find" /\ pc[r] = "ret"
        /\ op[q] = "find" /\ pc[q] = "lock" /\ CanAcquire(q)

\* The liveness the writers do not have: a waiting insert or erase acquires.
\* It is not a property of WeakFairSpec: TLC finds the lasso in which the
\* finds of two threads overlap for ever while the writer waits.
C20_WaitingWriterAcquires ==
    \A w \in LiveThreads :
        (pc[w] = "lock" /\ op[w] \in {"insert", "erase"}) ~> Holding(w)

====
